---- MODULE Spec2Model ----
(***************************************************************************)
(* Model of search_scopus.py: the Scopus harvest.  main() runs one query   *)
(* per theory and per key paper; search_by() searches, retrieves the full  *)
(* records, filters them in five stages while recording the population     *)
(* after each stage, projects the survivors to rows, and main() appends    *)
(* the rows to the master table and one row to the counts and the areas    *)
(* table; at the end the master table is deduplicated by DOI into the      *)
(* summary and the four tables are written.                                *)
(*                                                                         *)
(* Text is a sequence of characters, so that Python's `in` on a str        *)
(* (substring) and on a list (membership) are different operators.         *)
(* None and the empty str/list are only ever read through truthiness for   *)
(* abstract and authkeywords, and are both the empty sequence here; an     *)
(* absent doi / description is the value None.                             *)
(***************************************************************************)
EXTENDS Naturals, Sequences, FiniteSets

VARIABLES
    config,         \* the loaded configuration (main, lines 212-236)
    pc,             \* control point of main/search_by
    ti,             \* index of the theory being harvested (loop of line 249)
    pi,             \* 0: the theory-level query; k > 0: its k-th key paper (line 266)
    sent,           \* the queries handed to ScopusSearch so far (line 112)
    scopus_search,  \* the current query's search results (line 184)
    abstracts,      \* the current query's record list (lines 185, 75-91)
    papers_count,   \* the current query's stage counts (line 70)
    areas,          \* the current query's subject-area exclusion counts (line 16)
    results_df,     \* master table (line 244)
    counts_df,      \* counts table (line 245)
    areas_df,       \* areas table (line 246)
    summary_df,     \* summary table (line 284)
    written         \* whether the output tables were written (lines 291-294)

vars == <<config, pc, ti, pi, sent, scopus_search, abstracts, papers_count,
          areas, results_df, counts_df, areas_df, summary_df, written>>

----------------------------------------------------------------------------
(* Bounds of the model *)

\* at most this many results per search
MaxResults == 2
\* at most this many records in a record list handed to the filter pipeline
MaxRecords == 2
\* at most this many subject areas on a record drawn for the pipeline
MaxAreas == 2

----------------------------------------------------------------------------
(* Values *)

None == "None"
NA == "NA"

SeqsUpTo(S, n) == UNION {[1..k -> S] : k \in 0..n}

\* sequences without repetition
InjSeqsUpTo(S, n) == {s \in SeqsUpTo(S, n) : \A i, j \in 1..Len(s) : i # j => s[i] # s[j]}

Range(s) == {s[i] : i \in 1..Len(s)}

\* Python: t in s, for two str
IsSubstring(t, s) ==
    \E i \in 0..Len(s) : i + Len(t) <= Len(s) /\ SubSeq(s, i + 1, i + Len(t)) = t

\* Python: x in l, for a list l
InList(x, l) == \E i \in 1..Len(l) : l[i] = x

\* dict.fromkeys(keys, 0)
fromkeys(keys) == [k \in keys |-> 0]

\* The 'Subject Areas' mapping of the configuration: abbreviation -> full
\* name.  It lists every abbreviation a record can carry (line 25 looks
\* each one up in the dict built from it).
SubjectAreas ==
    [a \in {"PSYC", "NEUR", "MEDI"} |->
        CASE a = "PSYC" -> "Psychology"
          [] a = "NEUR" -> "Neuroscience"
          [] a = "MEDI" -> "Medicine"]

\* A full record, as AbstractRetrieval returns it (the fields the pipeline
\* and the claims read; the other projected fields follow the same
\* `x if x else 'NA'` rule as title).
Rec(eid, title, language, subtype, subject_areas, abstract, authkeywords, doi) ==
    [eid |-> eid, title |-> title, language |-> language, subtype |-> subtype,
     subject_areas |-> subject_areas, abstract |-> abstract,
     authkeywords |-> authkeywords, doi |-> doi]

Config(publication_years, chosen, methodologies, dois, theories) ==
    [publication_years |-> publication_years,
     subject_areas |-> SubjectAreas,
     chosen |-> chosen,
     methodologies |-> methodologies,
     dois |-> dois,
     theories |-> theories,
     harvest_id |-> "H1"]

----------------------------------------------------------------------------
(* The filters *)

\* the increments of one excluded record: one per entry of its area list
RECURSIVE CountAreas(_, _)
CountAreas(ar, subject_areas) ==
    IF subject_areas = <<>> THEN ar
    ELSE CountAreas([ar EXCEPT ![Head(subject_areas)] = @ + 1], Tail(subject_areas))

\* variant: a kept record is appended once per chosen area it carries
RECURSIVE filter_by_subject_areas_per_area(_, _, _)
filter_by_subject_areas_per_area(abs, subject_areas, subject_areas_chosen) ==
    IF abs = <<>> THEN [abstracts |-> <<>>, areas |-> fromkeys(subject_areas)]
    ELSE LET ab == abs[Len(abs)]
             rest == filter_by_subject_areas_per_area(
                        SubSeq(abs, 1, Len(abs) - 1), subject_areas, subject_areas_chosen)
             hits == SelectSeq(ab.subject_areas, LAMBDA a : a \in subject_areas_chosen)
         IN  IF hits # <<>>
             THEN [rest EXCEPT !.abstracts = @ \o [i \in 1..Len(hits) |-> ab]]
             ELSE [rest EXCEPT !.areas = CountAreas(@, ab.subject_areas)]

\* _filter_by_subject_areas: the kept records and the exclusion counts
RECURSIVE _filter_by_subject_areas(_, _, _)
_filter_by_subject_areas(abs, subject_areas, subject_areas_chosen) ==
    IF abs = <<>> THEN [abstracts |-> <<>>, areas |-> fromkeys(subject_areas)]
    ELSE LET ab == abs[Len(abs)]
             rest == _filter_by_subject_areas(
                        SubSeq(abs, 1, Len(abs) - 1), subject_areas, subject_areas_chosen)
         IN  IF \E i \in 1..Len(ab.subject_areas) :
                    ab.subject_areas[i] \in subject_areas_chosen
             THEN [rest EXCEPT !.abstracts = Append(@, ab)]
             ELSE [rest EXCEPT !.areas = CountAreas(@, ab.subject_areas)]

\* the parts of a record the methodology filter looks into:
\* filter(None, (ab.abstract, ab.authkeywords))
\* ab.abstract is a str: `in` is substring; ab.authkeywords is a list of
\* str: `in` is membership.
MethodologyFound(methodology, ab) ==
    \/ ab.abstract # <<>> /\ IsSubstring(methodology, ab.abstract)
    \/ ab.authkeywords # <<>> /\ InList(methodology, ab.authkeywords)

\* _filter_by_methodologies
_filter_by_methodologies(abs, methodologies) ==
    IF methodologies = <<>> THEN abs
    ELSE SelectSeq(abs, LAMBDA ab :
            \E m \in 1..Len(methodologies) : MethodologyFound(methodologies[m], ab))

\* variant: a record without a DOI is dropped too
filter_by_dois_truthy(abs, dois) ==
    SelectSeq(abs, LAMBDA ab : ab.doi # None /\ ab.doi \notin dois)

\* [ab for ab in abstracts if ab.doi not in dois]
filter_by_dois(abs, dois) == SelectSeq(abs, LAMBDA ab : ab.doi \notin dois)

\* [ab for ab in abstracts if ab.language == 'eng']
filter_by_language(abs) == SelectSeq(abs, LAMBDA ab : ab.language = "eng")

\* [ab for ab in abstracts if ab.subtype == 'ar']
filter_by_subtype(abs) == SelectSeq(abs, LAMBDA ab : ab.subtype = "ar")

----------------------------------------------------------------------------
(* The search service *)

\* The publications the service holds: the full record of each eid and the
\* short description its search result carries.
Catalogue ==
    <<[ab |-> Rec(1, "T1", "eng", "ar", <<"PSYC">>, <<"a">>, <<>>, "10.1/x"),
       description |-> "D1"],
      [ab |-> Rec(2, "T2", "eng", "ar", <<"NEUR", "NEUR">>, <<"a", "b">>, <<>>, "10.1/y"),
       description |-> "D2"],
      [ab |-> Rec(3, "T3", "eng", "ar", <<"PSYC", "NEUR">>, <<>>, << <<"a", "b">> >>, None),
       description |-> "D3"],
      [ab |-> Rec(4, "T4", "eng", "ar", <<"MEDI", "PSYC">>, <<"b">>, << <<"a">> >>, None),
       description |-> None]>>

Eids == DOMAIN Catalogue

\* what a ScopusSearch can return: results for distinct eids, in any order
SearchResults ==
    {[i \in 1..Len(es) |-> [eid |-> es[i], description |-> Catalogue[es[i]].description]] :
        es \in InjSeqsUpTo(Eids, MaxResults)}

----------------------------------------------------------------------------
(* The configurations of the harvest *)

\* config['Theories']: the names are distinct, so the dict of line 228
\* lists them in the order of the configuration
TheoriesChoices ==
    { <<[ToC |-> "GNW", KeyPapers |-> <<"Dehaene 2001">>]>>,
      <<[ToC |-> "GNW", KeyPapers |-> <<>>], [ToC |-> "IIT", KeyPapers |-> <<>>]>> }

PublicationYearsChoices == { << <<2019, 2021>> >>, << <<2015, 2018>>, <<2020, 2021>> >> }

\* The harvest is run with one whitelist, no methodology term and no
\* excluded DOI: the stages are exercised on their own under SpecFilter.
\* One configuration has a theory with a key paper followed by another
\* theory.
HarvestConfigs ==
    {Config(py, {"PSYC"}, <<>>, {}, th) :
        py \in PublicationYearsChoices, th \in TheoriesChoices}
    \cup {Config(<< <<2019, 2021>> >>, {"PSYC"}, <<>>, {},
                <<[ToC |-> "GNW", KeyPapers |-> <<"Dehaene 2001">>],
                  [ToC |-> "IIT", KeyPapers |-> <<>>]>>)}

\* configurations whose 'Publication Years' list is empty
EmptyYearsConfigs == {Config(<<>>, {"PSYC"}, <<>>, {}, th) : th \in TheoriesChoices}

----------------------------------------------------------------------------
(* main and search_by *)

theory == config.theories[ti].ToC
paper == IF pi = 0 THEN None ELSE config.theories[ti].KeyPapers[pi]

\* no stage count recorded yet: dict.fromkeys(filter_columns, 0)
NoCounts == [i \in 1..6 |-> 0]
NoAreas == fromkeys(DOMAIN SubjectAreas)

\* _main_search, lines 101-108: the query, as its two AND-joined clauses
BuildQuery(th, pa, publication_years) ==
    [topic |-> IF pa # None /\ pa # ""
               THEN [key |-> "REFTITLE", text |-> pa]
               ELSE [key |-> "TITLE-ABS-KEY", text |-> th],
     after_year |-> [i \in 1..Len(publication_years) |->
                        [AFT |-> publication_years[i][1] - 1,
                         BEF |-> publication_years[i][2] + 1]]]

\* main before the loop (lines 244-246), for a loaded configuration
Start(cfg) ==
    /\ config = cfg
    /\ pc = IF cfg.theories = <<>> THEN "summary" ELSE "query"
    /\ ti = 1
    /\ pi = 0
    /\ sent = <<>>
    /\ scopus_search = <<>>
    /\ abstracts = <<>>
    /\ papers_count = NoCounts
    /\ areas = NoAreas
    /\ results_df = <<>>
    /\ counts_df = <<>>
    /\ areas_df = <<>>
    /\ summary_df = <<>>
    /\ written = FALSE

Init == \E cfg \in HarvestConfigs : Start(cfg)

tables == <<results_df, counts_df, areas_df, summary_df, written>>
locals == <<abstracts, papers_count, areas>>

\* _main_search: ScopusSearch answers
MainSearchOk ==
    /\ pc = "query"
    /\ sent' = Append(sent, BuildQuery(theory, paper, config.publication_years))
    /\ \E res \in SearchResults : scopus_search' = res
    /\ pc' = "searched"
    /\ UNCHANGED <<config, ti, pi, locals, tables>>

\* _main_search: ScopusSearch raises, the exception leaves main
MainSearchFails ==
    /\ pc = "query"
    /\ sent' = Append(sent, BuildQuery(theory, paper, config.publication_years))
    /\ pc' = "aborted"
    /\ UNCHANGED <<config, ti, pi, scopus_search, locals, tables>>

\* variant: a failed retrieval skips the query and the loop goes on
RetrieveAbstractsSkips ==
    /\ pc = "searched"
    /\ scopus_search # <<>>
    /\ IF pi < Len(config.theories[ti].KeyPapers)
       THEN pi' = pi + 1 /\ ti' = ti /\ pc' = "query"
       ELSE IF ti < Len(config.theories)
            THEN pi' = 0 /\ ti' = ti + 1 /\ pc' = "query"
            ELSE pi' = pi /\ ti' = ti /\ pc' = "summary"
    /\ scopus_search' = <<>>
    /\ UNCHANGED <<config, sent, locals, tables>>

\* _retrieve_abstracts: some AbstractRetrieval raises, the exception leaves main
RetrieveAbstractsFails ==
    /\ pc = "searched"
    /\ scopus_search # <<>>
    /\ pc' = "aborted"
    /\ UNCHANGED <<config, ti, pi, sent, scopus_search, locals, tables>>

\* _retrieve_abstracts: every eid's full record
RetrieveAbstractsOk ==
    /\ pc = "searched"
    /\ abstracts' = [i \in 1..Len(scopus_search) |-> Catalogue[scopus_search[i].eid].ab]
    /\ pc' = "retrieved"
    /\ UNCHANGED <<config, ti, pi, sent, scopus_search, papers_count, areas, tables>>

----------------------------------------------------------------------------
(* _filter_abstracts, stage by stage *)

frame == <<config, ti, pi, sent, scopus_search, tables>>

\* lines 70-72
CountRaw ==
    /\ pc = "retrieved"
    /\ papers_count' = [NoCounts EXCEPT ![1] = Len(abstracts)]
    /\ pc' = "raw"
    /\ UNCHANGED <<abstracts, areas, frame>>

\* lines 75-76
FilterLanguage ==
    /\ pc = "raw"
    /\ abstracts' = filter_by_language(abstracts)
    /\ papers_count' = [papers_count EXCEPT ![2] = Len(abstracts')]
    /\ pc' = "language"
    /\ UNCHANGED <<areas, frame>>

\* lines 79-80
FilterType ==
    /\ pc = "language"
    /\ abstracts' = filter_by_subtype(abstracts)
    /\ papers_count' = [papers_count EXCEPT ![3] = Len(abstracts')]
    /\ pc' = "type"
    /\ UNCHANGED <<areas, frame>>

\* lines 83-84
FilterSubjectAreas ==
    /\ pc = "type"
    /\ LET r == _filter_by_subject_areas(abstracts, DOMAIN config.subject_areas, config.chosen)
       IN  /\ abstracts' = r.abstracts
           /\ areas' = r.areas
    /\ papers_count' = [papers_count EXCEPT ![4] = Len(abstracts')]
    /\ pc' = "area"
    /\ UNCHANGED frame

\* lines 87-88
FilterMethodologies ==
    /\ pc = "area"
    /\ abstracts' = IF config.methodologies # <<>>
                    THEN _filter_by_methodologies(abstracts, config.methodologies)
                    ELSE abstracts
    /\ papers_count' = [papers_count EXCEPT ![5] = Len(abstracts')]
    /\ pc' = "methodology"
    /\ UNCHANGED <<areas, frame>>

\* lines 91-92
FilterDois ==
    /\ pc = "methodology"
    /\ abstracts' = filter_by_dois(abstracts, config.dois)
    /\ papers_count' = [papers_count EXCEPT ![6] = Len(abstracts')]
    /\ pc' = "doi"
    /\ UNCHANGED <<areas, frame>>

----------------------------------------------------------------------------
(* Projection and aggregation *)

\* x if x else 'NA', for a str field
OrNA(x) == IF x = None \/ x = "" THEN NA ELSE x

\* _process_abstracts, with the harvest and search-type columns search_by
\* concatenates to it (lines 190-197): one row per surviving record, its
\* Abstract read from search.results at the record's index in the
\* surviving list
_process_abstracts(abs, search, th, pa) ==
    [index \in 1..Len(abs) |->
        [HarvestID |-> config.harvest_id,
         Title     |-> OrNA(abs[index].title),
         DOI       |-> OrNA(abs[index].doi),
         Abstract  |-> OrNA(search[index].description),
         Theory    |-> th,
         Paper     |-> OrNA(pa)]]

\* {subject_areas[area]: count for area, count in areas.items()}
TranslateAreas(ar, subject_areas) ==
    [n \in {subject_areas[a] : a \in DOMAIN ar} |->
        ar[CHOOSE a \in DOMAIN ar : subject_areas[a] = n]]

\* the rows of df at the indices in keep, in order
RECURSIVE Rows(_, _, _)
Rows(df, keep, i) ==
    IF i > Len(df) THEN <<>>
    ELSE (IF i \in keep THEN <<df[i]>> ELSE <<>>) \o Rows(df, keep, i + 1)

\* variant: keep='last'
drop_duplicates_last(df) ==
    Rows(df, {i \in 1..Len(df) : \A j \in (i + 1)..Len(df) : df[j].DOI # df[i].DOI}, 1)

\* results_df.drop_duplicates(subset=['DOI']): keep='first' is the default
drop_duplicates(df) ==
    Rows(df, {i \in 1..Len(df) : \A j \in 1..(i - 1) : df[j].DOI # df[i].DOI}, 1)

\* [search_columns + notes_columns]: the harvest and search-type columns go
SummaryColumns(df) ==
    [i \in 1..Len(df) |->
        [Title |-> df[i].Title, DOI |-> df[i].DOI, Abstract |-> df[i].Abstract]]

\* the for loops of lines 249 and 266: the next query, or the end of the loop
NextQuery ==
    IF pi < Len(config.theories[ti].KeyPapers)
    THEN pi' = pi + 1 /\ ti' = ti /\ pc' = "query"
    ELSE IF ti < Len(config.theories)
         THEN pi' = 0 /\ ti' = ti + 1 /\ pc' = "query"
         ELSE pi' = pi /\ ti' = ti /\ pc' = "summary"

\* variant: a query without surviving papers adds nothing to any table
AppendResultsSkipEmpty ==
    /\ pc = "doi"
    /\ results_df' = results_df \o _process_abstracts(abstracts, scopus_search, theory, paper)
    /\ counts_df' = IF abstracts = <<>> THEN counts_df
                    ELSE Append(counts_df,
                        [Theory |-> theory, Paper |-> OrNA(paper), counts |-> papers_count])
    /\ areas_df' = IF abstracts = <<>> THEN areas_df
                   ELSE Append(areas_df,
                        [Theory |-> theory, Paper |-> OrNA(paper),
                         areas |-> TranslateAreas(areas, config.subject_areas)])
    /\ NextQuery
    /\ scopus_search' = <<>>
    /\ abstracts' = <<>>
    /\ papers_count' = NoCounts
    /\ areas' = NoAreas
    /\ UNCHANGED <<config, sent, summary_df, written>>

\* search_by lines 188-199 and main lines 252-264 / 269-281: the rows of the
\* query go to the master table, one row to the counts table and one to the
\* areas table; the locals of search_by are dropped
AppendResults ==
    /\ pc = "doi"
    /\ results_df' = results_df \o _process_abstracts(abstracts, scopus_search, theory, paper)
    /\ counts_df' = Append(counts_df,
                        [Theory |-> theory, Paper |-> OrNA(paper), counts |-> papers_count])
    /\ areas_df' = Append(areas_df,
                        [Theory |-> theory, Paper |-> OrNA(paper),
                         areas |-> TranslateAreas(areas, config.subject_areas)])
    /\ NextQuery
    /\ scopus_search' = <<>>
    /\ abstracts' = <<>>
    /\ papers_count' = NoCounts
    /\ areas' = NoAreas
    /\ UNCHANGED <<config, sent, summary_df, written>>

\* lines 284-294: the summary is derived and the four tables are written
WriteTables ==
    /\ pc = "summary"
    /\ summary_df' = SummaryColumns(drop_duplicates(results_df))
    /\ written' = TRUE
    /\ pc' = "done"
    /\ UNCHANGED <<config, ti, pi, sent, scopus_search, locals,
                   results_df, counts_df, areas_df>>

Next ==
    \/ MainSearchOk
    \/ MainSearchFails
    \/ RetrieveAbstractsOk
    \/ RetrieveAbstractsFails
    \/ CountRaw
    \/ FilterLanguage
    \/ FilterType
    \/ FilterSubjectAreas
    \/ FilterMethodologies
    \/ FilterDois
    \/ AppendResults
    \/ WriteTables

Spec == Init /\ [][Next]_vars

\* the harvest run on a configuration without publication-year intervals
InitEmptyYears == \E cfg \in EmptyYearsConfigs : Start(cfg)

SpecEmptyYears == InitEmptyYears /\ [][Next]_vars

----------------------------------------------------------------------------
(* The filter pipeline on its own: _filter_abstracts applied to record     *)
(* lists and configurations drawn from bounded sets.  Each family varies   *)
(* the fields one group of stages reads; the last varies all of them.      *)

Languages == {"eng", "ger"}
Subtypes == {"ar", "re"}
DoiChoices == {None, "10.1/x", "10.1/y"}
AreaLists == SeqsUpTo({"PSYC", "NEUR"}, MaxAreas)
AbstractChoices == { <<>>, <<"b", "a">>, <<"A">> }
KeywordChoices == { <<>>, << <<"a">> >>, << <<"a", "b">> >>, << <<"b">>, <<"A">> >> }
MethodologyChoices == { <<>>, << <<"a">> >>, << <<"a", "b">> >>, << <<"b">>, <<"a">> >> }

CodeRecords ==
    {Rec(0, "T", l, s, <<"PSYC">>, <<>>, <<>>, d) :
        l \in Languages, s \in Subtypes, d \in DoiChoices}
CodeConfigs ==
    {Config(<<>>, {"PSYC"}, <<>>, ds, <<>>) : ds \in {{}, {"10.1/x"}, {"10.1/x", "10.1/y"}}}

AreaRecords == {Rec(0, "T", "eng", "ar", a, <<>>, <<>>, None) : a \in AreaLists}
AreaConfigs == {Config(<<>>, ch, <<>>, {}, <<>>) : ch \in {{}, {"PSYC"}, {"PSYC", "NEUR"}}}

MethodologyRecords ==
    {Rec(0, "T", "eng", "ar", <<"PSYC">>, a, k, None) :
        a \in AbstractChoices, k \in KeywordChoices}
MethodologyConfigs == {Config(<<>>, {"PSYC"}, me, {}, <<>>) : me \in MethodologyChoices}

MixedRecords ==
    {Rec(0, "T", l, s, a, t, <<>>, d) :
        l \in Languages, s \in Subtypes, a \in { <<"PSYC">>, <<"NEUR">> },
        t \in { <<>>, <<"a">> }, d \in {None, "10.1/x"}}
MixedConfigs == {Config(<<>>, {"PSYC"}, << <<"a">> >>, {"10.1/x"}, <<>>)}

\* the families: the configurations and the records that go together
FilterFamilies ==
    { [configs |-> CodeConfigs, records |-> CodeRecords],
      [configs |-> AreaConfigs, records |-> AreaRecords],
      [configs |-> MethodologyConfigs, records |-> MethodologyRecords],
      [configs |-> MixedConfigs, records |-> MixedRecords] }

InitFilter ==
    /\ \E fam \in FilterFamilies :
          /\ config \in fam.configs
          /\ \E n \in 0..MaxRecords : abstracts \in [1..n -> fam.records]
    /\ pc = "retrieved"
    /\ ti = 1
    /\ pi = 0
    /\ sent = <<>>
    /\ scopus_search = <<>>
    /\ papers_count = NoCounts
    /\ areas = NoAreas
    /\ results_df = <<>>
    /\ counts_df = <<>>
    /\ areas_df = <<>>
    /\ summary_df = <<>>
    /\ written = FALSE

NextFilter ==
    \/ CountRaw
    \/ FilterLanguage
    \/ FilterType
    \/ FilterSubjectAreas
    \/ FilterMethodologies
    \/ FilterDois

SpecFilter == InitFilter /\ [][NextFilter]_vars

----------------------------------------------------------------------------
(* Properties of the filter pipeline (under SpecFilter) *)

\* C1: once all stages have run, the six stage counts are non-increasing
\* in stage order: raw >= language >= type >= subject area >= methodology
\* >= doi.
C1_StageCountsNonIncreasing ==
    pc = "doi" => \A i \in 1..5 : papers_count[i] >= papers_count[i + 1]

\* a run in which the subject-area stage and a later stage each remove a record
C1_Witness ==
    /\ pc = "doi"
    /\ papers_count[1] > papers_count[4]
    /\ papers_count[4] > papers_count[6]

\* the indices of the records the subject-area stage drops
DroppedByArea ==
    {i \in 1..Len(abstracts) :
        Range(abstracts[i].subject_areas) \cap config.chosen = {}}

\* C4: the subject-area stage raises, for every dropped record, the count
\* of each distinct abbreviation the record carries by exactly one, and
\* kept records raise nothing: the count of an abbreviation is the number
\* of dropped records that carry it.
C4_AreaCountsOncePerRecord ==
    [][(pc = "type" /\ pc' = "area") =>
          \A a \in DOMAIN areas' :
              areas'[a] = Cardinality({i \in DroppedByArea :
                                          a \in Range(abstracts[i].subject_areas)})]_vars

\* the indices of the records the DOI stage has to keep
KeptByDoi ==
    {i \in 1..Len(abstracts) :
        abstracts[i].doi = None \/ abstracts[i].doi \notin config.dois}

\* C8: the DOI stage removes exactly the records whose DOI is in the
\* excluded list; the records without a DOI all stay, and the kept records
\* stay in their order: the k-th output is the k-th kept input.
C8_DoiStageExact ==
    [][(pc = "methodology" /\ pc' = "doi") =>
          /\ Len(abstracts') = Cardinality(KeptByDoi)
          /\ \A k \in 1..Len(abstracts') :
                abstracts'[k] =
                    abstracts[CHOOSE i \in KeptByDoi :
                                Cardinality({j \in KeptByDoi : j <= i}) = k]]_vars

\* the DOI stage has removed a record and kept one without a DOI
C8_Witness ==
    /\ pc = "doi"
    /\ papers_count[5] > papers_count[6]
    /\ \E i \in 1..Len(abstracts) : abstracts[i].doi = None

\* a term occurs in the abstract text or in the text of an author keyword
TermOccurs(term, ab) ==
    \/ IsSubstring(term, ab.abstract)
    \/ \E k \in 1..Len(ab.authkeywords) : IsSubstring(term, ab.authkeywords[k])

\* C9: with a non-empty term list the methodology stage keeps exactly the
\* records in which some term is a case-sensitive substring of the abstract
\* or of the author-keyword text; with an empty list it keeps everything.
C9_MethodologySubstring ==
    [][(pc = "area" /\ pc' = "methodology") =>
          abstracts' =
              IF config.methodologies = <<>> THEN abstracts
              ELSE SelectSeq(abstracts, LAMBDA ab :
                      \E m \in 1..Len(config.methodologies) :
                          TermOccurs(config.methodologies[m], ab))]_vars

----------------------------------------------------------------------------
(* Properties of the harvest (under Spec) *)

\* the queries of one theory: the theory-level query, then its key papers
QueriesOf(th) ==
    <<[Theory |-> th.ToC, Paper |-> NA]>> \o
    [k \in 1..Len(th.KeyPapers) |-> [Theory |-> th.ToC, Paper |-> th.KeyPapers[k]]]

RECURSIVE QueriesFrom(_)
QueriesFrom(ths) == IF ths = <<>> THEN <<>> ELSE QueriesOf(Head(ths)) \o QueriesFrom(Tail(ths))

\* the queries of the harvest, in the order the claims give
Queries == QueriesFrom(config.theories)

Stamp(row) == [Theory |-> row.Theory, Paper |-> row.Paper]
QueryIndex(row) == CHOOSE k \in 1..Len(Queries) : Queries[k] = Stamp(row)

MasterDois == {results_df[i].DOI : i \in 1..Len(results_df)}
FirstWith(d) ==
    CHOOSE i \in 1..Len(results_df) :
        /\ results_df[i].DOI = d
        /\ \A j \in 1..(i - 1) : results_df[j].DOI # d

\* C2: after all queries, the master table is in query order (theories in
\* config order, the theory-level query before the key papers), and the
\* summary holds exactly one row for every DOI of the master table: the
\* first master row with that DOI.
C2_SummaryFirstPerDoi ==
    pc = "done" =>
        LET at == [i \in 1..Len(results_df) |-> QueryIndex(results_df[i])]
        IN  /\ \A i \in 1..(Len(results_df) - 1) : at[i] <= at[i + 1]
            /\ \A j \in 1..Len(summary_df) : summary_df[j].DOI \in MasterDois
            /\ \A d \in MasterDois :
                  /\ Cardinality({j \in 1..Len(summary_df) : summary_df[j].DOI = d}) = 1
                  /\ \E j \in 1..Len(summary_df) :
                        LET r == results_df[FirstWith(d)]
                        IN  summary_df[j] =
                                [Title |-> r.Title, DOI |-> r.DOI, Abstract |-> r.Abstract]

\* two queries each gave a record with the same DOI: 2 master rows, 1 summary row
C2_Witness ==
    /\ pc = "done"
    /\ Len(results_df) = 2
    /\ results_df[1].DOI = results_df[2].DOI
    /\ results_df[1].DOI # NA
    /\ Stamp(results_df[1]) # Stamp(results_df[2])
    /\ Len(summary_df) = 1

\* C3: the summary keeps every master row of a record without a DOI.
C3_AbsentDoiRowsKept ==
    pc = "done" =>
        Cardinality({j \in 1..Len(summary_df) : summary_df[j].DOI = NA})
            = Cardinality({i \in 1..Len(results_df) : results_df[i].DOI = NA})

InQuery ==
    pc \in {"searched", "retrieved", "raw", "language", "type", "area", "methodology", "doi"}

RowsOf(q) == {i \in 1..Len(results_df) : Stamp(results_df[i]) = q}

\* C5: a query is all-or-nothing.  Every query handed to the service either
\* completed, and then added its rows to the master table and exactly one
\* row to the counts and to the areas table before the next query started,
\* or is the running or the failed one, and then no table holds a row of
\* it.  After a failure nothing more happens: no further query, no output.
C5_AllOrNothing ==
    /\ Len(areas_df) = Len(counts_df)
    /\ pc \in {"query", "summary", "done"} => Len(sent) = Len(counts_df)
    /\ (InQuery \/ pc = "aborted") =>
          /\ Len(sent) = Len(counts_df) + 1
          /\ RowsOf(Queries[Len(sent)]) = {}
    /\ \A k \in 1..Len(counts_df) :
          /\ Stamp(counts_df[k]) = Queries[k]
          /\ Stamp(areas_df[k]) = Queries[k]
          /\ Cardinality(RowsOf(Queries[k])) = counts_df[k].counts[6]
    /\ pc = "aborted" => ~written /\ summary_df = <<>> /\ ~ENABLED Next
    /\ written => Len(counts_df) = Len(Queries)

\* the harvest aborted after an earlier query had added its rows
C5_Witness ==
    /\ pc = "aborted"
    /\ Len(sent) = 2
    /\ Len(counts_df) = 1
    /\ results_df # <<>>

\* a query whose search returned nothing is being processed
EmptyQuery == InQuery /\ scopus_search = <<>>

AllZero(f) == \A x \in DOMAIN f : f[x] = 0

\* C6: a query with an empty candidate set does not fail, has all six
\* stage counts 0, adds no row to the master table and exactly one row,
\* all zeros, to the counts and to the areas table.
C6_EmptyCandidateSet ==
    [][EmptyQuery =>
          /\ pc' # "aborted"
          /\ pc' = "doi" => AllZero(papers_count')
          /\ pc = "doi" =>
                /\ results_df' = results_df
                /\ Len(counts_df') = Len(counts_df) + 1
                /\ SubSeq(counts_df', 1, Len(counts_df)) = counts_df
                /\ AllZero(counts_df'[Len(counts_df')].counts)
                /\ Len(areas_df') = Len(areas_df) + 1
                /\ SubSeq(areas_df', 1, Len(areas_df)) = areas_df
                /\ AllZero(areas_df'[Len(areas_df')].areas)]_vars

\* a query with an empty candidate set has completed
C6_Witness ==
    /\ pc \in {"query", "summary"}
    /\ results_df = <<>>
    /\ counts_df # <<>>
    /\ AllZero(counts_df[Len(counts_df)].counts)
    /\ AllZero(areas_df[Len(areas_df)].areas)

\* C7 (under SpecEmptyYears): no query without a year-range clause is
\* handed to the search service: an empty list of publication-year
\* intervals ends the query builder in an error before ScopusSearch is
\* called.
C7_EmptyIntervalsFatal ==
    \A k \in 1..Len(sent) : sent[k].after_year # <<>>

\* C10: the Abstract of every master row is the short description of the
\* publication that supplied the row's title.
C10_AbstractOfSameRecord ==
    \A i \in 1..Len(results_df) :
        \E e \in Eids :
            /\ results_df[i].Title = OrNA(Catalogue[e].ab.title)
            /\ results_df[i].Abstract = OrNA(Catalogue[e].description)

====
